---------------------------- MODULE Spec2Model ----------------------------
(***************************************************************************)
(* Model of the Deye inverter Prometheus exporter (src/exporter.py).       *)
(*                                                                         *)
(* Strings are sequences of one-character strings, so that the text        *)
(* conversions of the program (lower, title, strip, split, int, float,     *)
(* the metric id) are computed character by character as the code does.    *)
(* Floating-point numbers are fixed-point integers counted in tenths.      *)
(***************************************************************************)
EXTENDS Integers, Sequences, FiniteSets, TLC

VARIABLES
    pc,               \* position of the process in main / of the harness
    environ,          \* os.environ: variable -> [set, val]
    config_file,      \* config.ini: [exists, sections, keys]
    config,           \* the dict load_config builds and returns
    namespace,        \* prometheus_client's process-wide REGISTRY: metric names
    registers,        \* DeyeCollector.registers (the names resolved)
    numeric_metrics,  \* DeyeCollector.numeric_metrics: description -> Gauge
    string_metrics,   \* DeyeCollector.string_metrics: description -> Info
    setup_i,          \* index of the next name _setup_metrics looks at
    error,            \* the exception that ended the process ("" for none)
    builds,           \* how many collectors were constructed in this process
    first_build,      \* the name -> label mapping of the first collector
    groups,           \* the batches planned by the running cycle
    g,                \* index of the next batch of the running cycle
    outcome,          \* per batch handled in this cycle: what happened to it
    decoded,          \* register -> value decoded by map_response in this cycle
    logged,           \* the last logger.error message of this cycle
    reads,            \* start addresses of the transport reads of this cycle
    classified,       \* description -> what _is_numeric_value returned for it
    description,      \* argument of _create_metric_id
    metric_id         \* its result

vars == <<pc, environ, config_file, config, namespace, registers,
          numeric_metrics, string_metrics, setup_i, error, builds,
          first_build, groups, g, outcome, decoded, logged, reads,
          classified, description, metric_id>>

-----------------------------------------------------------------------------
(* Bounds of the model *)

MaxNames == 3
MaxDescLen == 3
MaxValLen == 3

-----------------------------------------------------------------------------
(* Characters and strings *)

UpperSeq == <<"A", "B", "C", "D", "S", "U", "V">>
LowerSeq == <<"a", "b", "c", "d", "s", "u", "v">>
OtherLower == {"e", "n", "o", "r", "y"}
Digits == <<"0", "1", "2", "3", "4", "5", "6", "7", "8", "9">>

Range(s) == {s[k] : k \in 1..Len(s)}

IsUpper(c) == c \in Range(UpperSeq)
IsLowerCh(c) == c \in Range(LowerSeq) \cup OtherLower
IsAlpha(c) == IsUpper(c) \/ IsLowerCh(c)
IsDigit(c) == c \in Range(Digits)
IsAlnum(c) == IsAlpha(c) \/ IsDigit(c)
IsSpace(c) == c = " "

LowerCh(c) ==
    IF IsUpper(c) THEN LowerSeq[CHOOSE k \in 1..Len(UpperSeq) : UpperSeq[k] = c]
    ELSE c

UpperCh(c) ==
    IF c \in Range(LowerSeq)
    THEN UpperSeq[CHOOSE k \in 1..Len(LowerSeq) : LowerSeq[k] = c]
    ELSE c

DigitVal(c) == (CHOOSE k \in 1..Len(Digits) : Digits[k] = c) - 1

\* lower() left out
LowerKeep(s) == s

\* str.lower()
Lower(s) == [k \in 1..Len(s) |-> LowerCh(s[k])]

\* str.title(): a letter that follows a non-letter starts a word
Title(s) ==
    [k \in 1..Len(s) |->
        IF IsAlpha(s[k]) /\ (k = 1 \/ ~IsAlpha(s[k-1]))
        THEN UpperCh(s[k]) ELSE LowerCh(s[k])]

\* str.replace(' ', '_')
ReplaceSpaces(s) == [k \in 1..Len(s) |-> IF s[k] = " " THEN "_" ELSE s[k]]

RECURSIVE LStrip(_)
LStrip(s) == IF s # <<>> /\ IsSpace(Head(s)) THEN LStrip(Tail(s)) ELSE s

RECURSIVE RStrip(_)
RStrip(s) ==
    IF s # <<>> /\ IsSpace(s[Len(s)]) THEN RStrip(SubSeq(s, 1, Len(s) - 1)) ELSE s

\* str.strip()
Strip(s) == RStrip(LStrip(s))

\* str.split(','): the pieces between the commas, empty pieces included
RECURSIVE SplitFrom(_, _, _)
SplitFrom(s, k, cur) ==
    IF k > Len(s) THEN <<cur>>
    ELSE IF s[k] = "," THEN <<cur>> \o SplitFrom(s, k + 1, <<>>)
    ELSE SplitFrom(s, k + 1, Append(cur, s[k]))

Split(s) == SplitFrom(s, 1, <<>>)

\* [m.strip() for m in s.split(',') if m.strip()]
ParseMetricList(s) ==
    LET parts == Split(s)
        kept == SelectSeq(parts, LAMBDA m : Strip(m) # <<>>)
    IN [k \in 1..Len(kept) |-> Strip(kept[k])]


\* the value of a run of decimal digits
RECURSIVE DigitsVal(_)
DigitsVal(s) ==
    IF s = <<>> THEN 0
    ELSE 10 * DigitsVal(SubSeq(s, 1, Len(s) - 1)) + DigitVal(s[Len(s)])

AllDigits(s) == \A k \in 1..Len(s) : IsDigit(s[k])

\* int(s) of a string: surrounding blanks, an optional sign, one digit or more;
\* anything else raises ValueError (ok = FALSE)
ParseInt(s) ==
    LET t == Strip(s)
        signed == t # <<>> /\ Head(t) \in {"-", "+"}
        body == IF signed THEN Tail(t) ELSE t
    IN  IF body # <<>> /\ AllDigits(body)
        THEN [ok |-> TRUE,
              val |-> IF signed /\ Head(t) = "-" THEN -DigitsVal(body)
                      ELSE DigitsVal(body)]
        ELSE [ok |-> FALSE, val |-> 0]

\* float(s) of a string, in tenths: blanks, sign, digits, optional point and
\* digits, one digit at least; anything else raises ValueError
ParseFloat(s) ==
    LET t == Strip(s)
        signed == t # <<>> /\ Head(t) \in {"-", "+"}
        body == IF signed THEN Tail(t) ELSE t
        dots == {k \in 1..Len(body) : body[k] = "."}
        dot == IF dots = {} THEN Len(body) + 1 ELSE CHOOSE k \in dots : TRUE
        ip == SubSeq(body, 1, dot - 1)
        fp == SubSeq(body, dot + 1, Len(body))
        mag == 10 * DigitsVal(ip) + (IF fp = <<>> THEN 0 ELSE DigitVal(fp[1]))
    IN  IF Cardinality(dots) <= 1 /\ AllDigits(ip) /\ AllDigits(fp)
           /\ Len(ip) + Len(fp) >= 1
        THEN [ok |-> TRUE,
              val |-> IF signed /\ Head(t) = "-" THEN -mag ELSE mag]
        ELSE [ok |-> FALSE, val |-> 0]

-----------------------------------------------------------------------------
(* load_config *)

DefaultPort == 9877
DefaultInterval == 15
DefaultInverterPort == 8899
\* 2999999999 in the source, which a 32-bit model integer cannot hold: the
\* default serial number is represented by the largest integer that can
DefaultSerial == 2147483647
DefaultHost == <<"1", "9", "2", ".", "1", "6", "8", ".", "1", "0", "0", ".",
                 "1", "0", "2">>

DefaultConfig ==
    [port |-> DefaultPort,
     collection_interval |-> DefaultInterval,
     host |-> DefaultHost,
     inverter_port |-> DefaultInverterPort,
     serial_number |-> DefaultSerial,
     metrics |-> <<>>]

EnvNames == {"EXPORTER_PORT", "EXPORTER_COLLECTION_INTERVAL", "INVERTER_HOST",
             "INVERTER_PORT", "INVERTER_SERIAL", "INVERTER_METRICS"}

Sections == {"exporter", "inverter", "metrics"}
Options == {"exporter.port", "exporter.collection_interval", "inverter.host",
            "inverter.port", "inverter.serial_number", "metrics.selection"}

Unset == [set |-> FALSE, val |-> <<>>]
SetTo(s) == [set |-> TRUE, val |-> s]

\* config_parser.get / getint with a fallback: the fallback is used only when
\* the option is missing; a present value is converted
FileInt(file, opt, fallback) ==
    IF file.options[opt].set THEN ParseInt(file.options[opt].val)
    ELSE [ok |-> TRUE, val |-> fallback]

FileStr(file, opt, fallback) ==
    IF file.options[opt].set THEN file.options[opt].val ELSE fallback

\* int(os.getenv(NAME, current))
EnvInt(env, name, current) ==
    IF env[name].set THEN ParseInt(env[name].val)
    ELSE [ok |-> TRUE, val |-> current]

\* os.getenv(NAME, current)
EnvStr(env, name, current) ==
    IF env[name].set THEN env[name].val ELSE current

\* EnvMetrics testing that the variable is set, not that it is non-empty
EnvMetricsWhenSet(env, current) ==
    IF env["INVERTER_METRICS"].set
    THEN ParseMetricList(env["INVERTER_METRICS"].val)
    ELSE current

\* if os.getenv('INVERTER_METRICS'): an empty string is falsy
EnvMetrics(env, current) ==
    IF env["INVERTER_METRICS"].set /\ env["INVERTER_METRICS"].val # <<>>
    THEN ParseMetricList(env["INVERTER_METRICS"].val)
    ELSE current

\* the whole of load_config: [ok, config]; ok = FALSE when a conversion raises
load_config(env, file) ==
    LET d == DefaultConfig
        hasExp == file.exists /\ "exporter" \in file.sections
        hasInv == file.exists /\ "inverter" \in file.sections
        hasMet == file.exists /\ "metrics" \in file.sections
        fPort == IF hasExp THEN FileInt(file, "exporter.port", d.port)
                 ELSE [ok |-> TRUE, val |-> d.port]
        fIntv == IF hasExp
                 THEN FileInt(file, "exporter.collection_interval",
                              d.collection_interval)
                 ELSE [ok |-> TRUE, val |-> d.collection_interval]
        fHost == IF hasInv THEN FileStr(file, "inverter.host", d.host)
                 ELSE d.host
        fIPort == IF hasInv THEN FileInt(file, "inverter.port", d.inverter_port)
                  ELSE [ok |-> TRUE, val |-> d.inverter_port]
        fSer == IF hasInv
                THEN FileInt(file, "inverter.serial_number", d.serial_number)
                ELSE [ok |-> TRUE, val |-> d.serial_number]
        fMet == IF hasMet
                THEN ParseMetricList(FileStr(file, "metrics.selection", <<>>))
                ELSE d.metrics
        ePort == EnvInt(env, "EXPORTER_PORT", fPort.val)
        eIntv == EnvInt(env, "EXPORTER_COLLECTION_INTERVAL", fIntv.val)
        eHost == EnvStr(env, "INVERTER_HOST", fHost)
        eIPort == EnvInt(env, "INVERTER_PORT", fIPort.val)
        eSer == EnvInt(env, "INVERTER_SERIAL", fSer.val)
        eMet == EnvMetrics(env, fMet)
    IN  [ok |-> fPort.ok /\ fIntv.ok /\ fIPort.ok /\ fSer.ok
                /\ ePort.ok /\ eIntv.ok /\ eIPort.ok /\ eSer.ok,
         config |-> [port |-> ePort.val,
                     collection_interval |-> eIntv.val,
                     host |-> eHost,
                     inverter_port |-> eIPort.val,
                     serial_number |-> eSer.val,
                     metrics |-> eMet]]

-----------------------------------------------------------------------------
(* _create_metric_id *)

Prefix == <<"d", "e", "y", "e", "_">>
InfoSuffix == <<"_", "i", "n", "f", "o">>

\* ''.join(c if c.isalnum() or c == '_' else '_' for c in metric_id)
ReplaceSpecial(s) ==
    [k \in 1..Len(s) |-> IF IsAlnum(s[k]) \/ s[k] = "_" THEN s[k] ELSE "_"]

create_metric_id(desc, is_info) ==
    LET lowered == ReplaceSpaces(Lower(desc))
        base_id == Prefix \o ReplaceSpecial(lowered)
    IN  IF is_info THEN base_id \o InfoSuffix ELSE base_id

-----------------------------------------------------------------------------
(* The register catalog (deye_controller's HoldingRegisters) and batching *)

Reg(name, desc, suffix, address) ==
    [name |-> name, description |-> desc, suffix |-> suffix, address |-> address]

\* Four registers. A and C are adjacent, so they share a batch; the
\* descriptions of C and D differ and normalize to the same metric id.
Catalog ==
    { Reg(<<"A">>, <<"s", "o", "c">>, <<"%">>, 1),
      Reg(<<"C">>, <<"b", " ", "v">>, <<"V">>, 2),
      Reg(<<"B">>, <<"r", "u", "n">>, <<>>, 5),
      Reg(<<"D">>, <<"b", "-", "v">>, <<"V">>, 9) }

CatalogNames == {r.name : r \in Catalog}

\* getattr(HoldingRegisters, metric_name, None) is not None
Resolvable(name) == name \in CatalogNames

Register(name) == CHOOSE r \in Catalog : r.name = name

\* sorted(regs, key=address): insertion into a sorted sequence
RECURSIVE InsertByAddress(_, _)
InsertByAddress(sorted, r) ==
    IF sorted = <<>> THEN <<r>>
    ELSE IF r.address < Head(sorted).address THEN <<r>> \o sorted
    ELSE <<Head(sorted)>> \o InsertByAddress(Tail(sorted), r)

RECURSIVE SortByAddress(_)
SortByAddress(regs) ==
    IF regs = <<>> THEN <<>>
    ELSE InsertByAddress(SortByAddress(SubSeq(regs, 1, Len(regs) - 1)),
                         regs[Len(regs)])

\* group_registers: the registers in address order, cut into runs of
\* consecutive addresses; a batch is [start_address, len, regs]
RECURSIVE GroupSorted(_, _)
GroupSorted(acc, rest) ==
    IF rest = <<>> THEN acc
    ELSE LET r == Head(rest)
             last == IF acc = <<>> THEN [start_address |-> 0, len |-> 0, regs |-> <<>>]
                     ELSE acc[Len(acc)]
         IN  IF acc # <<>> /\ r.address = last.start_address + last.len
             THEN GroupSorted(
                    [acc EXCEPT ![Len(acc)] =
                        [start_address |-> last.start_address,
                         len |-> last.len + 1,
                         regs |-> Append(last.regs, r.name)]],
                    Tail(rest))
             ELSE GroupSorted(
                    Append(acc, [start_address |-> r.address, len |-> 1,
                                 regs |-> <<r.name>>]),
                    Tail(rest))

group_registers(regs) == GroupSorted(<<>>, SortByAddress(regs))

-----------------------------------------------------------------------------
(* Decoded values and the two kinds of metric handle *)

None == [kind |-> "none", n |-> 0, s |-> <<>>]
IntV(n) == [kind |-> "int", n |-> n, s |-> <<>>]
FloatV(tenths) == [kind |-> "float", n |-> tenths, s |-> <<>>]
StrV(s) == [kind |-> "str", n |-> 0, s |-> s]
\* an object for which float() raises TypeError and str() raises as well
Bad == [kind |-> "bad", n |-> 0, s |-> <<>>]

\* what map_response may leave in reg.value
Values == {None, IntV(87), StrV(<<"1", "2", ".", "5">>), StrV(<<"S", "b">>)}

\* float(value), in tenths: [ok, val]; ok = FALSE for ValueError / TypeError
ToFloat(v) ==
    CASE v.kind = "int" -> [ok |-> TRUE, val |-> 10 * v.n]
      [] v.kind = "float" -> [ok |-> TRUE, val |-> v.n]
      [] v.kind = "str" -> ParseFloat(v.s)
      [] OTHER -> [ok |-> FALSE, val |-> 0]

RECURSIVE NatToStr(_)
NatToStr(n) ==
    IF n < 10 THEN <<Digits[n + 1]>>
    ELSE NatToStr(n \div 10) \o <<Digits[(n % 10) + 1]>>

\* str(value)
ToStr(v) ==
    CASE v.kind = "str" -> v.s
      [] v.kind = "int" ->
            IF v.n < 0 THEN <<"-">> \o NatToStr(-v.n) ELSE NatToStr(v.n)
      [] v.kind = "float" ->
            (IF v.n < 0 THEN <<"-">> \o NatToStr((-v.n) \div 10)
             ELSE NatToStr(v.n \div 10))
            \o <<".">> \o NatToStr((IF v.n < 0 THEN -v.n ELSE v.n) % 10)
      [] OTHER -> <<"N", "o", "n", "e">>

\* is_numeric_value that never tries to convert a string
is_numeric_not_str(v) == v.kind \in {"int", "float"}

\* _is_numeric_value
is_numeric_value(v) == ToFloat(v).ok

\* a Gauge starts at 0.0, an Info with no value
Gauge(name, documentation) ==
    [name |-> name, documentation |-> documentation, value |-> 0]

Info(name, documentation) ==
    [name |-> name, documentation |-> documentation, value |-> Unset]

\* the time series names a metric claims in the process-wide registry
GaugeNames(name) == {name}
InfoNames(name) == {name, name \o InfoSuffix}

\* d[key] = item
DictSet(d, key, item) ==
    [k \in DOMAIN d \cup {key} |-> IF k = key THEN item ELSE d[k]]

EmptyDict == [k \in {} |-> 0]

-----------------------------------------------------------------------------
(* DeyeCollector._update_metric and the dispatch loop of collect_metrics *)

ValueStr(value, suffix) ==
    IF suffix # <<>> THEN ToStr(value) \o <<" ">> \o suffix ELSE ToStr(value)

\* update_metric writing the textual handle whatever the value is
update_metric_both(nm, sm, desc, value, suffix) ==
    LET sm2 == IF desc \in DOMAIN sm
               THEN [sm EXCEPT ![desc].value = SetTo(ValueStr(value, suffix))]
               ELSE sm
    IN  IF is_numeric_value(value) /\ desc \in DOMAIN nm
        THEN [numeric |-> [nm EXCEPT ![desc].value = ToFloat(value).val],
              string |-> sm2]
        ELSE [numeric |-> nm, string |-> sm2]

\* update_metric dropping the textual handle of an identity once a number
\* was written to it
update_metric_pops(nm, sm, desc, value, suffix) ==
    IF is_numeric_value(value)
    THEN IF desc \in DOMAIN nm
         THEN [numeric |-> [nm EXCEPT ![desc].value = ToFloat(value).val],
               string |-> [d \in DOMAIN sm \ {desc} |-> sm[d]]]
         ELSE [numeric |-> nm, string |-> sm]
    ELSE IF desc \in DOMAIN sm
         THEN [numeric |-> nm,
               string |-> [sm EXCEPT ![desc].value = SetTo(ValueStr(value, suffix))]]
         ELSE [numeric |-> nm, string |-> sm]

\* update_metric without the membership tests: the value is stored under
\* the description whether the table has it or not
update_metric_creates(nm, sm, desc, value, suffix) ==
    IF is_numeric_value(value)
    THEN [numeric |-> DictSet(nm, desc, [name |-> <<>>, documentation |-> <<>>,
                                         value |-> ToFloat(value).val]),
          string |-> sm]
    ELSE [numeric |-> nm,
          string |-> DictSet(sm, desc, [name |-> <<>>, documentation |-> <<>>,
                                        value |-> SetTo(ValueStr(value, suffix))])]

\* the two tables after _update_metric(description, value, suffix)
update_metric(nm, sm, desc, value, suffix) ==
    IF is_numeric_value(value)
    THEN IF desc \in DOMAIN nm
         THEN [numeric |-> [nm EXCEPT ![desc].value = ToFloat(value).val],
               string |-> sm]
         ELSE [numeric |-> nm, string |-> sm]
    ELSE IF desc \in DOMAIN sm
         THEN [numeric |-> nm,
               string |-> [sm EXCEPT ![desc].value = SetTo(ValueStr(value, suffix))]]
         ELSE [numeric |-> nm, string |-> sm]

\* for reg in group: ... if value is not None: self._update_metric(...)
RECURSIVE DispatchRegs(_, _, _, _)
DispatchRegs(nm, sm, regs, vals) ==
    IF regs = <<>> THEN [numeric |-> nm, string |-> sm]
    ELSE LET reg == Register(Head(regs))
             value == vals[Head(regs)]
             next == IF value # None
                     THEN update_metric(nm, sm, Title(reg.description), value,
                                        reg.suffix)
                     ELSE [numeric |-> nm, string |-> sm]
         IN  DispatchRegs(next.numeric, next.string, Tail(regs), vals)

-----------------------------------------------------------------------------
(* main: load_config *)

LoadConfig ==
    /\ pc = "load"
    /\ LET res == load_config(environ, config_file)
       IN  IF res.ok
           THEN /\ config' = res.config
                /\ pc' = "construct"
                /\ error' = ""
           ELSE /\ config' = config
                /\ pc' = "crashed"
                /\ error' = "ValueError"
    /\ UNCHANGED <<environ, config_file, namespace, registers, numeric_metrics,
                   string_metrics, setup_i, builds, first_build, groups, g,
                   outcome, description, metric_id, decoded, logged, reads, classified>>

-----------------------------------------------------------------------------
(* DeyeCollector.__init__ and _setup_metrics *)

\* Construct catching the connection error: the collector is built without
\* a device and main goes on to poll
ConstructSwallows ==
    /\ pc = "construct"
    /\ builds' = builds + 1
    /\ \E reachable \in BOOLEAN :
          /\ pc' = "setup"
          /\ error' = IF reachable THEN error ELSE "ConnectionError"
          /\ numeric_metrics' = EmptyDict
          /\ string_metrics' = EmptyDict
          /\ registers' = {}
          /\ setup_i' = 1
    /\ UNCHANGED <<environ, config_file, config, namespace, first_build, groups,
                   g, outcome, description, metric_id, decoded, logged, reads,
                   classified>>

\* PySolarmanV5(...) connects; then the tables start empty
Construct ==
    /\ pc = "construct"
    /\ builds' = builds + 1
    /\ \E reachable \in BOOLEAN :
          IF reachable
          THEN /\ pc' = "setup"
               /\ error' = error
               /\ numeric_metrics' = EmptyDict
               /\ string_metrics' = EmptyDict
               /\ registers' = {}
               /\ setup_i' = 1
          ELSE /\ pc' = "crashed"
               /\ error' = "ConnectionError"
               /\ UNCHANGED <<numeric_metrics, string_metrics, registers, setup_i>>
    /\ UNCHANGED <<environ, config_file, config, namespace, first_build, groups,
                   g, outcome, description, metric_id, decoded, logged, reads, classified>>

FullDescription(desc, suffix) ==
    IF suffix # <<>> THEN desc \o <<" ", "(">> \o suffix \o <<")">> ELSE desc

\* SkipUnknown without the None test: the lookup of the register's
\* attributes raises
RaiseOnUnknown ==
    /\ pc' = "crashed"
    /\ error' = "AttributeError"
    /\ UNCHANGED <<setup_i, registers, namespace, numeric_metrics, string_metrics>>

\* register is None: a warning, and the loop goes on with the next name
SkipUnknown ==
    /\ setup_i' = setup_i + 1
    /\ UNCHANGED <<pc, error, registers, namespace, numeric_metrics, string_metrics>>

\* one iteration of the loop of _setup_metrics
SetupMetric ==
    /\ pc = "setup"
    /\ setup_i <= Len(config.metrics)
    /\ LET metric_name == config.metrics[setup_i]
       IN  IF ~Resolvable(metric_name)
           THEN SkipUnknown
           ELSE LET register == Register(metric_name)
                    desc == Title(register.description)
                    full == FullDescription(desc, register.suffix)
                    gid == create_metric_id(desc, FALSE)
                    iid == create_metric_id(desc, TRUE)
                    gaugeClash == GaugeNames(gid) \cap namespace # {}
                    ns1 == namespace \cup GaugeNames(gid)
                    infoClash == InfoNames(iid) \cap ns1 # {}
                IN  /\ registers' = registers \cup {metric_name}
                    /\ IF gaugeClash
                       THEN /\ pc' = "crashed"
                            /\ error' = "Duplicated timeseries"
                            /\ UNCHANGED <<namespace, numeric_metrics,
                                           string_metrics, setup_i>>
                       ELSE IF infoClash
                       THEN /\ pc' = "crashed"
                            /\ error' = "Duplicated timeseries"
                            /\ namespace' = ns1
                            /\ numeric_metrics' =
                                  DictSet(numeric_metrics, desc, Gauge(gid, full))
                            /\ UNCHANGED <<string_metrics, setup_i>>
                       ELSE /\ namespace' = ns1 \cup InfoNames(iid)
                            /\ numeric_metrics' =
                                  DictSet(numeric_metrics, desc, Gauge(gid, full))
                            /\ string_metrics' =
                                  DictSet(string_metrics, desc, Info(iid, full))
                            /\ setup_i' = setup_i + 1
                            /\ UNCHANGED <<pc, error>>
    /\ UNCHANGED <<environ, config_file, config, builds, first_build, groups, g,
                   outcome, description, metric_id, decoded, logged, reads, classified>>

\* metric name -> label of every handle of the collector
LabelMap(nm, sm) ==
    LET handles == {nm[d] : d \in DOMAIN nm} \cup
                   {[name |-> sm[d].name, documentation |-> sm[d].documentation,
                     value |-> 0] : d \in DOMAIN sm}
    IN  [n \in {h.name : h \in handles} |->
            (CHOOSE h \in handles : h.name = n).documentation]

\* the loop of _setup_metrics is over: __init__ returns to main
SetupDone ==
    /\ pc = "setup"
    /\ setup_i > Len(config.metrics)
    /\ pc' = "loop"
    /\ first_build' = IF builds = 1 THEN LabelMap(numeric_metrics, string_metrics)
                      ELSE first_build
    /\ UNCHANGED <<environ, config_file, config, namespace, registers,
                   numeric_metrics, string_metrics, setup_i, error, builds,
                   groups, g, outcome, description, metric_id, decoded, logged, reads, classified>>

-----------------------------------------------------------------------------
(* DeyeCollector.collect_metrics and the loop of main *)

\* PlannedRegs taking every register of the catalog, resolved at startup or not
PlannedRegsCatalog ==
    LET all == SortByAddress(<<Register(<<"A">>), Register(<<"B">>)>>)
    IN  all

\* [self.registers[attr] for attr in self.config['metrics'] if attr in self.registers]
PlannedRegs ==
    LET kept == SelectSeq(config.metrics, LAMBDA attr : attr \in registers)
    IN  [k \in 1..Len(kept) |-> Register(kept[k])]

\* main calls collect_metrics: the registers are gathered and grouped
PlanCycle ==
    /\ pc = "loop"
    /\ groups' = group_registers(PlannedRegs)
    /\ g' = 1
    /\ outcome' = <<>>
    /\ decoded' = EmptyDict
    /\ logged' = ""
    /\ reads' = <<>>
    /\ classified' = classified
    /\ pc' = "collect"
    /\ UNCHANGED <<environ, config_file, config, namespace, registers,
                   numeric_metrics, string_metrics, setup_i, error, builds,
                   first_build, description, metric_id>>

\* self.modbus.read_holding_registers(group.start_address, group.len) is
\* called once in the iteration of a batch, whatever follows it
ReadBatch == reads' = Append(reads, groups[g].start_address)

BatchFrame ==
    UNCHANGED <<pc, environ, config_file, config, namespace, registers, setup_i,
                error, builds, first_build, groups, description, metric_id,
                classified>>

\* BatchReadFails clearing the handles of the batch it could not read
BatchReadFailsResets ==
    /\ pc = "collect"
    /\ g <= Len(groups)
    /\ ReadBatch
    /\ outcome' = Append(outcome, "read failed")
    /\ g' = g + 1
    /\ logged' = "Error reading register group"
    /\ LET descs == {Title(Register(r).description) : r \in Range(groups[g].regs)}
       IN  /\ numeric_metrics' =
                 [d \in DOMAIN numeric_metrics |->
                    IF d \in descs THEN [numeric_metrics[d] EXCEPT !.value = 0]
                    ELSE numeric_metrics[d]]
           /\ string_metrics' =
                 [d \in DOMAIN string_metrics |->
                    IF d \in descs THEN [string_metrics[d] EXCEPT !.value = Unset]
                    ELSE string_metrics[d]]
    /\ decoded' = decoded
    /\ BatchFrame

\* BatchReadFails issuing the read a second time before it gives the batch up
BatchReadRetried ==
    /\ pc = "collect"
    /\ g <= Len(groups)
    /\ reads' = reads \o <<groups[g].start_address, groups[g].start_address>>
    /\ outcome' = Append(outcome, "read failed")
    /\ g' = g + 1
    /\ logged' = "Error reading register group"
    /\ UNCHANGED <<numeric_metrics, string_metrics, decoded>>
    /\ BatchFrame

\* read_holding_registers raises: the batch is abandoned
BatchReadFails ==
    /\ pc = "collect"
    /\ g <= Len(groups)
    /\ ReadBatch
    /\ outcome' = Append(outcome, "read failed")
    /\ g' = g + 1
    /\ logged' = "Error reading register group"
    /\ UNCHANGED <<numeric_metrics, string_metrics, decoded>>
    /\ BatchFrame

\* BatchDecodeFails without the handler around the batch: the error reaches
\* the outer handler and the rest of the cycle is given up
BatchDecodeFailsAbortsCycle ==
    /\ pc = "collect"
    /\ g <= Len(groups)
    /\ ReadBatch
    /\ outcome' = Append(outcome, "decode failed")
    /\ g' = Len(groups) + 1
    /\ logged' = "Error collecting metrics"
    /\ UNCHANGED <<numeric_metrics, string_metrics, decoded>>
    /\ BatchFrame

\* map_response raises: the batch is abandoned
BatchDecodeFails ==
    /\ pc = "collect"
    /\ g <= Len(groups)
    /\ ReadBatch
    /\ outcome' = Append(outcome, "decode failed")
    /\ g' = g + 1
    /\ logged' = "Error reading register group"
    /\ UNCHANGED <<numeric_metrics, string_metrics, decoded>>
    /\ BatchFrame

\* read and decode succeed: every register of the batch is dispatched
BatchDispatched ==
    /\ pc = "collect"
    /\ g <= Len(groups)
    /\ ReadBatch
    /\ \E vals \in [Range(groups[g].regs) -> Values] :
          LET res == DispatchRegs(numeric_metrics, string_metrics,
                                  groups[g].regs, vals)
          IN  /\ numeric_metrics' = res.numeric
              /\ string_metrics' = res.string
              /\ decoded' = vals @@ decoded
    /\ outcome' = Append(outcome, "dispatched")
    /\ g' = g + 1
    /\ logged' = logged
    /\ BatchFrame

\* the loop over the batches is over: collect_metrics returns and its
\* locals are gone
CycleEnd ==
    /\ pc = "collect"
    /\ g > Len(groups)
    /\ pc' = "sleep"
    /\ groups' = <<>>
    /\ g' = 1
    /\ outcome' = <<>>
    /\ decoded' = EmptyDict
    /\ UNCHANGED <<environ, config_file, config, namespace, registers,
                   numeric_metrics, string_metrics, setup_i, error, builds,
                   first_build, description, metric_id, logged, reads, classified>>

\* time.sleep(collection_interval) returns
Sleep ==
    /\ pc = "sleep"
    /\ pc' = "loop"
    /\ UNCHANGED <<environ, config_file, config, namespace, registers,
                   numeric_metrics, string_metrics, setup_i, error, builds,
                   first_build, groups, g, outcome, description, metric_id, decoded, logged, reads, classified>>

-----------------------------------------------------------------------------
(* The process *)

NameChoices == CatalogNames \cup {<<"U">>}

NameLists == UNION {[1..n -> NameChoices] : n \in 0..MaxNames}

\* ','.join(names)
RECURSIVE Join(_)
Join(names) ==
    IF names = <<>> THEN <<>>
    ELSE IF Len(names) = 1 THEN names[1]
    ELSE names[1] \o <<",">> \o Join(Tail(names))

NoEnviron == [v \in EnvNames |-> Unset]

SelectionFile(selection) ==
    [exists |-> TRUE, sections |-> {"metrics"},
     options |-> [o \in Options |->
                    IF o = "metrics.selection" THEN SetTo(selection) ELSE Unset]]

InitRest ==
    /\ config = DefaultConfig
    /\ namespace = {}
    /\ registers = {}
    /\ numeric_metrics = EmptyDict
    /\ string_metrics = EmptyDict
    /\ setup_i = 1
    /\ error = ""
    /\ builds = 0
    /\ first_build = EmptyDict
    /\ groups = <<>>
    /\ g = 1
    /\ outcome = <<>>
    /\ decoded = EmptyDict
    /\ logged = ""
    /\ reads = <<>>
    /\ classified = EmptyDict

\* the process starts in main with a config.ini that selects some registers
Init ==
    /\ pc = "load"
    /\ environ = NoEnviron
    /\ \E names \in NameLists : config_file = SelectionFile(Join(names))
    /\ description = <<>>
    /\ metric_id = [id |-> <<>>, is_info |-> FALSE]
    /\ InitRest

Next ==
    \/ LoadConfig
    \/ Construct
    \/ SetupMetric
    \/ SetupDone
    \/ PlanCycle
    \/ BatchReadFails
    \/ BatchDecodeFails
    \/ BatchDispatched
    \/ CycleEnd
    \/ Sleep

Spec == Init /\ [][Next]_vars

-----------------------------------------------------------------------------
(* Errors no collaborator is known to raise, which the handlers still cover *)

\* PlanFails without the outer handler: the error leaves collect_metrics
\* and main
PlanFailsEscapes ==
    /\ pc = "loop"
    /\ pc' = "crashed"
    /\ error' = "Exception"
    /\ logged' = logged
    /\ reads' = <<>>
    /\ classified' = classified
    /\ UNCHANGED <<environ, config_file, config, namespace, registers,
                   numeric_metrics, string_metrics, setup_i, builds,
                   first_build, groups, g, outcome, decoded, description,
                   metric_id>>

\* building the register list or group_registers raises: the outer handler
\* of collect_metrics logs it and collect_metrics returns
PlanFails ==
    /\ pc = "loop"
    /\ pc' = "sleep"
    /\ logged' = "Error collecting metrics"
    /\ reads' = <<>>
    /\ classified' = classified
    /\ UNCHANGED <<environ, config_file, config, namespace, registers,
                   numeric_metrics, string_metrics, setup_i, error, builds,
                   first_build, groups, g, outcome, decoded, description,
                   metric_id>>

\* BatchDispatchRaises without a handler in collect_metrics: the error of
\* _update_metric leaves collect_metrics and main
BatchDispatchRaisesUncaught ==
    /\ pc = "collect"
    /\ g <= Len(groups)
    /\ ReadBatch
    /\ \E vals \in [Range(groups[g].regs) -> Values \cup {Bad}] :
       \E k \in 1..Len(groups[g].regs) :
          LET regs == groups[g].regs
              res == DispatchRegs(numeric_metrics, string_metrics,
                                  SubSeq(regs, 1, k - 1), vals)
          IN  /\ vals[regs[k]] = Bad
              /\ \A j \in 1..(k - 1) : vals[regs[j]] # Bad
              /\ numeric_metrics' = res.numeric
              /\ string_metrics' = res.string
              /\ decoded' = vals @@ decoded
    /\ outcome' = Append(outcome, "dispatch failed")
    /\ g' = g + 1
    /\ logged' = logged
    /\ pc' = "crashed"
    /\ error' = "Exception"
    /\ UNCHANGED <<environ, config_file, config, namespace, registers, setup_i,
                   builds, first_build, groups, description, metric_id,
                   classified>>

\* BatchDispatchRaises undoing the updates of the batch made before the error
BatchDispatchRaisesRollsBack ==
    /\ pc = "collect"
    /\ g <= Len(groups)
    /\ ReadBatch
    /\ \E vals \in [Range(groups[g].regs) -> Values \cup {Bad}] :
          /\ \E r \in Range(groups[g].regs) : vals[r] = Bad
          /\ decoded' = vals @@ decoded
    /\ UNCHANGED <<numeric_metrics, string_metrics>>
    /\ outcome' = Append(outcome, "dispatch failed")
    /\ g' = g + 1
    /\ logged' = "Error reading register group"
    /\ BatchFrame

\* the k-th register of the batch is the first whose value neither float()
\* nor str() accepts: the registers before it are dispatched, _update_metric
\* raises at it, the batch handler logs the error and the rest of the batch
\* is skipped
BatchDispatchRaises ==
    /\ pc = "collect"
    /\ g <= Len(groups)
    /\ ReadBatch
    /\ \E vals \in [Range(groups[g].regs) -> Values \cup {Bad}] :
       \E k \in 1..Len(groups[g].regs) :
          LET regs == groups[g].regs
              res == DispatchRegs(numeric_metrics, string_metrics,
                                  SubSeq(regs, 1, k - 1), vals)
          IN  /\ vals[regs[k]] = Bad
              /\ \A j \in 1..(k - 1) : vals[regs[j]] # Bad
              /\ numeric_metrics' = res.numeric
              /\ string_metrics' = res.string
              /\ decoded' = vals @@ decoded
    /\ outcome' = Append(outcome, "dispatch failed")
    /\ g' = g + 1
    /\ logged' = "Error reading register group"
    /\ BatchFrame

NextFaults == Next \/ PlanFails \/ BatchDispatchRaises

SpecFaults == Init /\ [][NextFaults]_vars

\* the selections of the fair specification: none, unknown, repeated and
\* colliding names, one batch of two registers, two batches
LiveSelections ==
    { <<>>, <<"U">>, <<"A">>, <<"A", ",", "A">>, <<"C", ",", "D">>,
      <<"C", ",", "U", ",", "A">>, <<"B", ",", "A">> }

InitLive ==
    /\ pc = "load"
    /\ environ = NoEnviron
    /\ \E selection \in LiveSelections : config_file = SelectionFile(selection)
    /\ description = <<>>
    /\ metric_id = [id |-> <<>>, is_info |-> FALSE]
    /\ InitRest

\* the process is sequential and every call returns or times out: a step
\* that can be taken is taken
FairSpecFaults == InitLive /\ [][NextFaults]_vars /\ WF_vars(NextFaults)

-----------------------------------------------------------------------------
(* A second collector constructed in the same process *)

Reconstruct ==
    /\ pc = "loop"
    /\ builds = 1
    /\ pc' = "construct"
    /\ UNCHANGED <<environ, config_file, config, namespace, registers,
                   numeric_metrics, string_metrics, setup_i, error, builds,
                   first_build, groups, g, outcome, decoded, logged, reads, classified,
                   description, metric_id>>

NextRebuild == Next \/ Reconstruct

SpecRebuild == Init /\ [][NextRebuild]_vars

-----------------------------------------------------------------------------
(* load_config over the environments and config files *)

EnvSpace ==
    { [v \in EnvNames |->
        CASE v = "EXPORTER_PORT" -> p
          [] v = "EXPORTER_COLLECTION_INTERVAL" -> i
          [] v = "INVERTER_HOST" -> h
          [] v = "INVERTER_PORT" -> ip
          [] v = "INVERTER_SERIAL" -> sn
          [] v = "INVERTER_METRICS" -> m] :
        p \in {Unset, SetTo(<<"7">>), SetTo(<<>>)},
        i \in {Unset, SetTo(<<"5">>)},
        h \in {Unset, SetTo(<<"a">>), SetTo(<<>>)},
        ip \in {Unset, SetTo(<<"8">>)},
        sn \in {Unset, SetTo(<<"9">>)},
        m \in {Unset, SetTo(<<>>), SetTo(<<"A">>),
               SetTo(<<" ", "A", ",", ",", "U", " ">>)} }

NoFile == [exists |-> FALSE, sections |-> {}, options |-> [o \in Options |-> Unset]]

FileSpace ==
    {NoFile} \cup
    { [exists |-> TRUE, sections |-> secs,
       options |-> [o \in Options |->
          CASE o = "exporter.port" -> IF "exporter" \in secs THEN p ELSE Unset
            [] o = "exporter.collection_interval" ->
                  IF "exporter" \in secs THEN i ELSE Unset
            [] o = "inverter.host" -> IF "inverter" \in secs THEN h ELSE Unset
            [] o = "inverter.port" -> IF "inverter" \in secs THEN ip ELSE Unset
            [] o = "inverter.serial_number" ->
                  IF "inverter" \in secs THEN sn ELSE Unset
            [] o = "metrics.selection" ->
                  IF "metrics" \in secs THEN m ELSE Unset]] :
        secs \in SUBSET Sections,
        p \in {Unset, SetTo(<<"8", "0">>), SetTo(<<"S">>)},
        i \in {Unset, SetTo(<<"3", "0">>)},
        h \in {Unset, SetTo(<<"b">>)},
        ip \in {Unset, SetTo(<<"8", "1">>)},
        sn \in {Unset, SetTo(<<"8", "2">>)},
        m \in {Unset, SetTo(<<"B", ",", "C">>), SetTo(<<>>)} }

InitConfig ==
    /\ pc = "load"
    /\ environ \in EnvSpace
    /\ config_file \in FileSpace
    /\ description = <<>>
    /\ metric_id = [id |-> <<>>, is_info |-> FALSE]
    /\ InitRest

SpecConfig == InitConfig /\ [][LoadConfig]_vars

-----------------------------------------------------------------------------
(* _create_metric_id over the descriptions *)

DescChars == {"A", "b", "1", " ", "-", "_"}

DescStrings == UNION {[1..n -> DescChars] : n \in 0..MaxDescLen}

InitIdentity ==
    /\ pc = "identity"
    /\ environ = NoEnviron
    /\ config_file = NoFile
    /\ description \in DescStrings
    /\ metric_id = [id |-> <<>>, is_info |-> FALSE]
    /\ InitRest

CreateMetricId ==
    /\ pc = "identity"
    /\ \E is_info \in BOOLEAN :
          metric_id' = [id |-> create_metric_id(description, is_info),
                        is_info |-> is_info]
    /\ pc' = "identity done"
    /\ UNCHANGED <<environ, config_file, config, namespace, registers,
                   numeric_metrics, string_metrics, setup_i, error, builds,
                   first_build, groups, g, outcome, decoded, logged, reads, classified,
                   description>>

SpecIdentity == InitIdentity /\ [][CreateMetricId]_vars

-----------------------------------------------------------------------------
(* Properties *)

Polling == {"loop", "collect", "sleep"}

DescOf(r) == Title(Register(r).description)

\* the handles of register r expose value v
Shows(r, v) ==
    /\ DescOf(r) \in DOMAIN numeric_metrics \cap DOMAIN string_metrics
    /\ IF ToFloat(v).ok
       THEN numeric_metrics[DescOf(r)].value = ToFloat(v).val
       ELSE string_metrics[DescOf(r)].value =
               SetTo(ValueStr(v, Register(r).suffix))

Failed(k) == outcome[k] \in {"read failed", "decode failed"}

\* C1. Partial-failure containment: within a cycle every batch is handled
\* in turn whatever happened to the batches before it, every register of a
\* batch whose read and decode succeeded has its value in its handle, and
\* no exception leaves collect_metrics (the process never ends in a cycle).
C1_PartialFailureContainment ==
    /\ pc = "collect" =>
          /\ g <= Len(groups) + 1
          /\ Len(outcome) = g - 1
          /\ \A k \in 1..Len(outcome) :
                outcome[k] = "dispatched" =>
                   \A r \in Range(groups[k].regs) :
                      /\ r \in DOMAIN decoded
                      /\ decoded[r] # None => Shows(r, decoded[r])
    /\ pc = "crashed" => groups = <<>> /\ outcome = <<>>

\* a cycle of three batches ends: the second failed to decode, the first
\* and the third were dispatched and their handles hold the new values
C1_Witness ==
    /\ pc = "collect"
    /\ g = 4
    /\ outcome = <<"dispatched", "decode failed", "dispatched">>
    /\ \A k \in {1, 3} : \A r \in Range(groups[k].regs) :
          decoded[r] # None /\ Shows(r, decoded[r])

\* C2. Whole-cycle failure containment: whatever fails in planning,
\* reading, decoding or dispatching, the process stays in the poll loop,
\* every call of collect_metrics returns, and main calls it again.
C2_WholeCycleContainment ==
    /\ [][(pc \in Polling) => (pc' \in Polling)]_vars
    /\ (pc \in {"loop", "collect"}) ~> (pc = "sleep")
    /\ (pc = "sleep") ~> (pc = "loop")

\* collect_metrics has returned from a cycle whose planning raised
C2_Witness == pc = "sleep" /\ logged = "Error collecting metrics"

\* the configured names among the first n that the catalog resolves
ResolvedAmong(n) == {config.metrics[k] : k \in {j \in 1..n : Resolvable(config.metrics[j])}}

RegistryIs(names) ==
    /\ DOMAIN numeric_metrics = {DescOf(r) : r \in names}
    /\ DOMAIN string_metrics = {DescOf(r) : r \in names}
    /\ {numeric_metrics[d].name : d \in DOMAIN numeric_metrics}
          = {create_metric_id(DescOf(r), FALSE) : r \in names}
    /\ {string_metrics[d].name : d \in DOMAIN string_metrics}
          = {create_metric_id(DescOf(r), TRUE) : r \in names}

HandleChanged(d) ==
    \/ d \notin DOMAIN numeric_metrics'
    \/ d \notin DOMAIN string_metrics'
    \/ numeric_metrics'[d] # numeric_metrics[d]
    \/ string_metrics'[d] # string_metrics[d]

\* C4. A handle changes only in the step that handles the batch of its
\* register, and only when that batch is read and decoded; every batch is
\* handled once per cycle. So the handles of a failed batch keep, through
\* the cycle, the values they had before it; the process stays in the loop.
C4_FailedBatchKeepsValues ==
    [][(pc \in Polling) =>
          /\ pc' \in Polling
          /\ (pc = "collect" /\ pc' = "collect") =>
                (g' = g + 1 /\ Len(outcome') = Len(outcome) + 1 /\ groups' = groups)
          /\ \A d \in DOMAIN numeric_metrics :
                HandleChanged(d) =>
                   /\ pc = "collect"
                   /\ g <= Len(groups)
                   /\ \E r \in Range(groups[g].regs) : DescOf(r) = d
                   /\ outcome' = Append(outcome, "dispatched")]_vars

\* a cycle ends in which a batch failed while a handle of one of its
\* registers exposes a value written by an earlier cycle
C4_Witness ==
    /\ pc = "collect"
    /\ g > Len(groups)
    /\ \E k \in 1..Len(outcome) :
          /\ Failed(k)
          /\ \E r \in Range(groups[k].regs) :
                \/ numeric_metrics[DescOf(r)].value # 0
                \/ string_metrics[DescOf(r)].value # Unset

\* the numeric values of the model and the float each stands for, in tenths
NumericText == <<"1", "2", ".", "5">>
IsNumber(v) == v.kind \in {"int", "float"} \/ (v.kind = "str" /\ v.s = NumericText)
AsFloat(v) == IF v.kind = "int" THEN 10 * v.n ELSE IF v.kind = "float" THEN v.n ELSE 125

\* C5. Dispatch of a present value writes exactly one of the two handles of
\* its identity: a numeric value sets the numeric handle to the value as a
\* float and leaves the textual handle, any other value is written as text
\* (with the unit) to the textual handle and leaves the numeric handle.
C5_OneHandlePerValue ==
    [][(pc = "collect" /\ outcome' = Append(outcome, "dispatched")) =>
          \A r \in Range(groups[g].regs) :
             (decoded'[r] # None /\ DescOf(r) \in DOMAIN numeric_metrics) =>
                IF IsNumber(decoded'[r])
                THEN /\ numeric_metrics'[DescOf(r)].value = AsFloat(decoded'[r])
                     /\ string_metrics'[DescOf(r)] = string_metrics[DescOf(r)]
                ELSE /\ string_metrics'[DescOf(r)].value =
                           SetTo(IF Register(r).suffix = <<>> THEN decoded'[r].s
                                 ELSE decoded'[r].s \o <<" ">> \o Register(r).suffix)
                     /\ numeric_metrics'[DescOf(r)] = numeric_metrics[DescOf(r)]]_vars

\* 87 was dispatched to one register and a text to another: the first has
\* 87.0 in its numeric handle and no text, the second the text and no number
C5_Witness ==
    /\ pc = "collect"
    /\ \E r1, r2 \in DOMAIN decoded :
          /\ decoded[r1] = IntV(87)
          /\ numeric_metrics[DescOf(r1)].value = 870
          /\ string_metrics[DescOf(r1)].value = Unset
          /\ decoded[r2] = StrV(<<"S", "b">>)
          /\ string_metrics[DescOf(r2)].value # Unset
          /\ numeric_metrics[DescOf(r2)].value = 0

\* distinct configured registers have distinct metric identities
IdsDistinct ==
    \A j, k \in 1..Len(config.metrics) :
       (/\ Resolvable(config.metrics[j])
        /\ Resolvable(config.metrics[k])
        /\ config.metrics[j] # config.metrics[k]) =>
          create_metric_id(DescOf(config.metrics[j]), FALSE)
             # create_metric_id(DescOf(config.metrics[k]), FALSE)

\* C6. The registry builder never tries to create a metric handle under an
\* identity the process-wide namespace already holds, a list that names the
\* same register twice included (stated for the lists whose distinct
\* registers have distinct identities: what refutes it is a repeated name).
C6_NoDuplicateCreation == ~(error = "Duplicated timeseries" /\ IdsDistinct)

\* C7. Building the registry twice from the same list of names succeeds
\* both times and gives the same identity -> label mapping.
C7_IdempotentBuild ==
    builds = 2 =>
       /\ error # "Duplicated timeseries"
       /\ pc \in Polling => LabelMap(numeric_metrics, string_metrics) = first_build

\* C8. With an empty list of configured names the registry holds a handle
\* for every register of the catalog and each cycle plans reads of them all.
C8_EmptyListIsFullCatalog ==
    (pc \in Polling /\ config.metrics = <<>>) =>
       /\ DOMAIN numeric_metrics = {DescOf(r) : r \in CatalogNames}
       /\ DOMAIN string_metrics = {DescOf(r) : r \in CatalogNames}
       /\ pc = "collect" =>
             UNION {Range(groups[k].regs) : k \in 1..Len(groups)} = CatalogNames

\* the config file gives the option, in a section it has
Provided(opt, section) ==
    /\ config_file.exists
    /\ section \in config_file.sections
    /\ config_file.options[opt].set

PrecedenceInt(var, opt, section, default) ==
    IF environ[var].set THEN ParseInt(environ[var].val).val
    ELSE IF Provided(opt, section) THEN ParseInt(config_file.options[opt].val).val
    ELSE default

PrecedenceStr(var, opt, section, default) ==
    IF environ[var].set THEN environ[var].val
    ELSE IF Provided(opt, section) THEN config_file.options[opt].val
    ELSE default

FileMetrics ==
    IF Provided("metrics.selection", "metrics")
    THEN ParseMetricList(config_file.options["metrics.selection"].val)
    ELSE <<>>

ScalarsByPrecedence ==
    /\ config.port = PrecedenceInt("EXPORTER_PORT", "exporter.port", "exporter", 9877)
    /\ config.collection_interval =
          PrecedenceInt("EXPORTER_COLLECTION_INTERVAL",
                        "exporter.collection_interval", "exporter", 15)
    /\ config.host = PrecedenceStr("INVERTER_HOST", "inverter.host", "inverter",
                                   DefaultHost)
    /\ config.inverter_port =
          PrecedenceInt("INVERTER_PORT", "inverter.port", "inverter", 8899)
    /\ config.serial_number =
          PrecedenceInt("INVERTER_SERIAL", "inverter.serial_number", "inverter",
                        DefaultSerial)

Normal(c) == IF c = "A" THEN "a" ELSE IF c \in {"b", "1"} THEN c ELSE "_"

\* a description with every maximal run of non-alphanumeric characters
\* collapsed to one separator
RECURSIVE Collapsed(_)
Collapsed(s) ==
    IF s = <<>> THEN <<>>
    ELSE IF Len(s) >= 2 /\ Normal(s[1]) = "_" /\ Normal(s[2]) = "_"
    THEN Collapsed(Tail(s))
    ELSE <<Normal(s[1])>> \o Collapsed(Tail(s))

\* C10, as amended. The identity is the namespace token followed by the
\* description character by character: a letter lower-cased, a digit as it
\* is, and every other character replaced by one separator, so that a run
\* of n such characters gives n separators; the textual handle's identity
\* is the same followed by _info.
C10_IdentityCharByChar ==
    pc = "identity done" =>
       /\ Len(metric_id.id) =
             5 + Len(description) + (IF metric_id.is_info THEN 5 ELSE 0)
       /\ SubSeq(metric_id.id, 1, 5) = <<"d", "e", "y", "e", "_">>
       /\ \A k \in 1..Len(description) :
             metric_id.id[5 + k] = Normal(description[k])
       /\ metric_id.is_info =>
             SubSeq(metric_id.id, 6 + Len(description), Len(metric_id.id))
                = <<"_", "i", "n", "f", "o">>

\* C10, as claimed: runs of non-alphanumeric characters are collapsed.
C10_IdentityCollapsesRuns ==
    (pc = "identity done" /\ ~metric_id.is_info) =>
       metric_id.id = <<"d", "e", "y", "e", "_">> \o Collapsed(description)

\* the identity of a description with two non-alphanumeric characters in a
\* row and an upper-case letter has two separators in a row
C10_Witness ==
    /\ pc = "identity done"
    /\ \E k \in 1..(Len(description) - 1) :
          /\ Normal(description[k]) = "_"
          /\ Normal(description[k + 1]) = "_"
          /\ metric_id.id[5 + k] = "_"
          /\ metric_id.id[6 + k] = "_"
    /\ \E k \in 1..Len(description) : description[k] = "A"

AllUnresolvable ==
    \A k \in 1..Len(config.metrics) : ~Resolvable(config.metrics[k])

\* C11. When no configured name is resolvable, construction does not raise
\* in the registry builder, the registry is empty, and every call of
\* collect_metrics plans no batch, issues no transport read and logs no error.
C11_NothingResolvableNothingRead ==
    /\ (pc \in Polling /\ AllUnresolvable) =>
          /\ numeric_metrics = EmptyDict
          /\ string_metrics = EmptyDict
          /\ registers = {}
          /\ groups = <<>>
          /\ reads = <<>>
          /\ logged = ""
    /\ (pc = "crashed" /\ AllUnresolvable) => error = "ConnectionError"

\* collect_metrics has returned for a list of unknown names only
C11_Witness ==
    /\ pc = "sleep"
    /\ config.metrics # <<>>
    /\ AllUnresolvable
    /\ numeric_metrics = EmptyDict
    /\ reads = <<>>

-----------------------------------------------------------------------------
(* _is_numeric_value and _update_metric over the values *)

ValChars == {"1", "5", ".", "-", "S", " "}

ValStrings == UNION {[1..n -> ValChars] : n \in 0..MaxValLen}

ClassValues == {IntV(-3), IntV(87), FloatV(125)} \cup {StrV(t) : t \in ValStrings}

\* map_response leaves the same value in every register of the collector
DecodeSame ==
    /\ pc = "loop"
    /\ registers # {}
    /\ \E v \in ClassValues : decoded' = [r \in registers |-> v]
    /\ classified' = EmptyDict
    /\ pc' = "classify"
    /\ UNCHANGED <<environ, config_file, config, namespace, registers,
                   numeric_metrics, string_metrics, setup_i, error, builds,
                   first_build, groups, g, outcome, logged, reads,
                   description, metric_id>>

\* self._update_metric(description, value, suffix) for one more register
UpdateMetric ==
    /\ pc = "classify"
    /\ \E r \in DOMAIN decoded :
          LET desc == Title(Register(r).description)
              res == update_metric(numeric_metrics, string_metrics, desc,
                                   decoded[r], Register(r).suffix)
          IN  /\ desc \notin DOMAIN classified
              /\ classified' = DictSet(classified, desc,
                                       is_numeric_value(decoded[r]))
              /\ numeric_metrics' = res.numeric
              /\ string_metrics' = res.string
    /\ UNCHANGED <<pc, environ, config_file, config, namespace, registers,
                   setup_i, error, builds, first_build, groups, g, outcome,
                   decoded, logged, reads, description, metric_id>>

NextClassify ==
    \/ LoadConfig
    \/ Construct
    \/ SetupMetric
    \/ SetupDone
    \/ DecodeSame
    \/ UpdateMetric

SpecClassify == InitLive /\ [][NextClassify]_vars

\* the examples of numbers and of texts among the values
ExampleNumbers == {IntV(-3), FloatV(125), StrV(<<"1", ".", "5">>), StrV(<<"-", "1">>)}
ExampleTexts == {StrV(<<"S">>), StrV(<<"1", " ", "S">>), StrV(<<>>), StrV(<<"-">>)}

\* C12. The class of a value depends on the value only: it is numeric
\* exactly when float(value) succeeds and textual otherwise, the same value
\* gets the same class under every metric identity, and the handle that is
\* written is the one of that class.
C12_ClassificationByValueOnly ==
    pc = "classify" =>
       /\ \A d1, d2 \in DOMAIN classified : classified[d1] = classified[d2]
       /\ \A r \in DOMAIN decoded :
             DescOf(r) \in DOMAIN classified =>
                LET v == decoded[r]
                    d == DescOf(r)
                IN  /\ classified[d] = ToFloat(v).ok
                    /\ v \in ExampleNumbers => classified[d]
                    /\ v \in ExampleTexts => ~classified[d]
                    /\ IF classified[d]
                       THEN /\ numeric_metrics[d].value = ToFloat(v).val
                            /\ string_metrics[d].value = Unset
                       ELSE /\ numeric_metrics[d].value = 0
                            /\ string_metrics[d].value # Unset

\* the text "1.5" was dispatched to two metric identities and both took it
\* as the number 1.5
C12_Witness ==
    /\ pc = "classify"
    /\ \E r1, r2 \in DOMAIN decoded :
          /\ DescOf(r1) # DescOf(r2)
          /\ decoded[r1] = StrV(<<"1", ".", "5">>)
          /\ {DescOf(r1), DescOf(r2)} \subseteq DOMAIN classified
          /\ classified[DescOf(r1)] /\ classified[DescOf(r2)]
          /\ numeric_metrics[DescOf(r1)].value = 15
          /\ numeric_metrics[DescOf(r2)].value = 15

\* C13. In a cycle the transport reads are those of the planned batches, one
\* per batch and in batch order, whatever happened to each batch: a batch
\* that failed is not read again before the next cycle plans it anew.
C13_OneReadPerBatch ==
    /\ pc = "collect" =>
          /\ Len(reads) = g - 1
          /\ Len(reads) = Len(outcome)
          /\ \A k \in 1..Len(reads) : reads[k] = groups[k].start_address
          /\ \A j, k \in 1..Len(reads) : j < k => reads[j] < reads[k]
    /\ pc = "sleep" => Len(reads) = Len(group_registers(PlannedRegs))

\* a cycle of two batches or more ends, one of them failed, and each was
\* read once
C13_Witness ==
    /\ pc = "collect"
    /\ g > Len(groups)
    /\ Len(groups) >= 2
    /\ \E k \in 1..Len(outcome) : Failed(k)
    /\ Len(reads) = Len(groups)

\* C14. Once the collector is built, no step of any cycle adds or removes a
\* key of the numeric or of the textual table, the two tables have the same
\* keys, and every handle keeps its name and label: only values change.
C14_RegistryShapeFixed ==
    [][(pc \in Polling) =>
          /\ DOMAIN numeric_metrics = DOMAIN string_metrics
          /\ DOMAIN numeric_metrics' = DOMAIN numeric_metrics
          /\ DOMAIN string_metrics' = DOMAIN string_metrics
          /\ \A d \in DOMAIN numeric_metrics :
                /\ numeric_metrics'[d].name = numeric_metrics[d].name
                /\ numeric_metrics'[d].documentation =
                      numeric_metrics[d].documentation
                /\ string_metrics'[d].name = string_metrics[d].name
                /\ string_metrics'[d].documentation =
                      string_metrics[d].documentation]_vars

\* a cycle with a failed and a dispatched batch is over: both tables have
\* the keys of the two registers, and a value was written
C14_Witness ==
    /\ pc = "collect"
    /\ g > Len(groups)
    /\ \E j, k \in 1..Len(outcome) : Failed(j) /\ outcome[k] = "dispatched"
    /\ Cardinality(DOMAIN numeric_metrics) >= 2
    /\ DOMAIN numeric_metrics = DOMAIN string_metrics
    /\ \E d \in DOMAIN numeric_metrics :
          numeric_metrics[d].value # 0 \/ string_metrics[d].value # Unset

\* two configured registers have distinct descriptions and one identity
Colliding ==
    \E j, k \in 1..Len(config.metrics) :
       /\ Resolvable(config.metrics[j])
       /\ Resolvable(config.metrics[k])
       /\ DescOf(config.metrics[j]) # DescOf(config.metrics[k])
       /\ create_metric_id(DescOf(config.metrics[j]), FALSE)
             = create_metric_id(DescOf(config.metrics[k]), FALSE)

NoRepeats ==
    \A j, k \in 1..Len(config.metrics) :
       config.metrics[j] = config.metrics[k] => j = k

\* C15. When two configured registers have distinct descriptions with the
\* same metric identity, the registry build is not ended by an error: the
\* builder goes through the whole list and the collector starts polling.
C15_CollisionBuildCompletes ==
    (Colliding /\ NoRepeats) => error # "Duplicated timeseries"

-----------------------------------------------------------------------------
(* A cycle whose plan holds a register the registry has no handle for *)

\* collect_metrics with one more register in regs than the builder resolved
PlanForeign ==
    /\ pc = "loop"
    /\ \E n \in CatalogNames \ registers :
          /\ \A r \in registers : DescOf(r) # DescOf(n)
          /\ groups' = group_registers(PlannedRegs \o <<Register(n)>>)
    /\ g' = 1
    /\ outcome' = <<>>
    /\ decoded' = EmptyDict
    /\ logged' = ""
    /\ reads' = <<>>
    /\ classified' = classified
    /\ pc' = "collect"
    /\ UNCHANGED <<environ, config_file, config, namespace, registers,
                   numeric_metrics, string_metrics, setup_i, error, builds,
                   first_build, description, metric_id>>

NextForeign ==
    \/ LoadConfig
    \/ Construct
    \/ SetupMetric
    \/ SetupDone
    \/ PlanForeign
    \/ BatchReadFails
    \/ BatchDecodeFails
    \/ BatchDispatched
    \/ CycleEnd
    \/ Sleep

SpecForeign == InitLive /\ [][NextForeign]_vars

Foreign(r) == DescOf(r) \notin DOMAIN numeric_metrics \cup DOMAIN string_metrics

\* C16. Dispatching a batch that holds a register without a handle raises
\* nothing and creates nothing: the loop goes on with the next batch, the
\* registers of the batch that have handles get their values, and no other
\* handle changes.
C16_ForeignRegisterIgnored ==
    [][(pc = "collect" /\ g <= Len(groups)) =>
          /\ pc' = "collect"
          /\ g' = g + 1
          /\ error' = error
          /\ logged' # logged => outcome' # Append(outcome, "dispatched")
          /\ DOMAIN numeric_metrics' = DOMAIN numeric_metrics
          /\ DOMAIN string_metrics' = DOMAIN string_metrics
          /\ outcome' = Append(outcome, "dispatched") =>
                /\ \A r \in Range(groups[g].regs) :
                      (~Foreign(r) /\ decoded'[r] # None) =>
                         IF ToFloat(decoded'[r]).ok
                         THEN numeric_metrics'[DescOf(r)].value
                                 = ToFloat(decoded'[r]).val
                         ELSE string_metrics'[DescOf(r)].value
                                 = SetTo(ValueStr(decoded'[r], Register(r).suffix))
                /\ \A d \in DOMAIN numeric_metrics :
                      (\A r \in Range(groups[g].regs) : DescOf(r) # d) =>
                         /\ numeric_metrics'[d] = numeric_metrics[d]
                         /\ string_metrics'[d] = string_metrics[d]]_vars

\* a cycle is over whose first batch held a register without a handle next
\* to one with a handle, both with a value: the second has its value in its
\* handle, and the batch after it was dispatched too
C16_Witness ==
    /\ pc = "collect"
    /\ g > Len(groups)
    /\ Len(groups) >= 2
    /\ \A k \in 1..Len(outcome) : outcome[k] = "dispatched"
    /\ \E r1, r2 \in Range(groups[1].regs) :
          /\ Foreign(r1)
          /\ decoded[r1] # None
          /\ ~Foreign(r2)
          /\ decoded[r2] # None
          /\ Shows(r2, decoded[r2])
    /\ \E r \in Range(groups[2].regs) :
          ~Foreign(r) /\ decoded[r] # None /\ Shows(r, decoded[r])

\* the handles of description d are left as they are by the step
HandleKept(d) ==
    /\ numeric_metrics'[d] = numeric_metrics[d]
    /\ string_metrics'[d] = string_metrics[d]

\* C17. A value that neither float() nor str() accepts changes no handle of
\* its register, and its error does not leave collect_metrics: the process
\* stays in the poll loop and goes on with the next batch.
C17_UncoercibleValueContained ==
    [][(pc \in Polling) =>
          /\ pc' \in Polling
          /\ error' = error
          /\ (pc = "collect" /\ g <= Len(groups)) =>
                /\ pc' = "collect"
                /\ g' = g + 1
                /\ outcome' = Append(outcome, "dispatched") =>
                      \A r \in Range(groups[g].regs) : decoded'[r] # Bad
                /\ outcome' = Append(outcome, "dispatch failed") =>
                      /\ \E r \in Range(groups[g].regs) : decoded'[r] = Bad
                      /\ \A r \in Range(groups[g].regs) :
                            decoded'[r] = Bad => HandleKept(DescOf(r))]_vars

\* a cycle is over in which a register had such a value while its numeric
\* handle exposes the number an earlier cycle wrote
C17_Witness ==
    /\ pc = "collect"
    /\ g > Len(groups)
    /\ \E k \in 1..Len(outcome) :
          /\ outcome[k] = "dispatch failed"
          /\ \E r \in Range(groups[k].regs) :
                /\ decoded[r] = Bad
                /\ numeric_metrics[DescOf(r)].value = 870

\* the handles of register r expose value v after the step
ShowsNext(r, v) ==
    IF ToFloat(v).ok
    THEN numeric_metrics'[DescOf(r)].value = ToFloat(v).val
    ELSE string_metrics'[DescOf(r)].value = SetTo(ValueStr(v, Register(r).suffix))

\* C19. Dispatch of a batch is not atomic: when _update_metric raises at a
\* register, the registers before it in the batch have their new values in
\* their handles, the handles of that register and of those after it are
\* left as they were, and the loop goes on: every later batch of the cycle
\* is read and handled.
C19_DispatchNotAtomic ==
    /\ [](pc = "collect" => (Len(reads) = g - 1 /\ Len(outcome) = g - 1))
    /\ [][(pc = "collect" /\ outcome' = Append(outcome, "dispatch failed")) =>
            /\ pc' = "collect"
            /\ g' = g + 1
            /\ groups' = groups
            /\ \E k \in 1..Len(groups[g].regs) :
                  LET regs == groups[g].regs
                  IN  /\ decoded'[regs[k]] = Bad
                      /\ \A j \in 1..(k - 1) :
                            decoded'[regs[j]] # None =>
                               ShowsNext(regs[j], decoded'[regs[j]])
                      /\ \A j \in k..Len(regs) : HandleKept(DescOf(regs[j]))]_vars

\* a cycle is over in whose first batch the second register raised: the
\* first register has its new value, the second keeps the number of an
\* earlier cycle though this cycle decoded something else for it, and the
\* batch after it was dispatched
C19_Witness ==
    /\ pc = "collect"
    /\ g > Len(groups)
    /\ Len(groups) >= 2
    /\ outcome[1] = "dispatch failed"
    /\ outcome[2] = "dispatched"
    /\ Len(groups[1].regs) = 2
    /\ LET r1 == groups[1].regs[1]
           r2 == groups[1].regs[2]
       IN  /\ decoded[r1] = StrV(<<"S", "b">>)
           /\ Shows(r1, decoded[r1])
           /\ decoded[r2] = Bad
           /\ numeric_metrics[DescOf(r2)].value = 870
    /\ \E r \in Range(groups[2].regs) :
          decoded[r] # None /\ Shows(r, decoded[r])

Startup == {"load", "construct", "setup"}

\* C18. An error of the construction of the collector (the device cannot
\* be reached, a metric identity is registered twice) ends the process
\* before any poll cycle: the step that raises leaves startup for the end,
\* nothing follows it, and no cycle was planned or read. Once main polls,
\* no step ends the process, whatever is raised inside a cycle.
C18_StartupErrorsFatalOnly ==
    [][/\ pc # "crashed"
       /\ (pc \in {"construct", "setup"} /\ error' # error) =>
             /\ pc' = "crashed"
             /\ error' \in {"ConnectionError", "Duplicated timeseries"}
       /\ pc' = "crashed" =>
             /\ pc \in Startup
             /\ error' # ""
             /\ groups' = <<>> /\ reads' = <<>> /\ outcome' = <<>>
             /\ \A d \in DOMAIN numeric_metrics' : numeric_metrics'[d].value = 0
             /\ \A d \in DOMAIN string_metrics' : string_metrics'[d].value = Unset
       /\ pc \in Polling => (pc' \in Polling /\ error' = error)
       /\ pc' \in Polling => error' = ""]_vars

\* the process has ended in the registry builder on a metric identity that
\* was registered before, and nothing was read
C18_Witness ==
    /\ pc = "crashed"
    /\ error = "Duplicated timeseries"
    /\ builds = 1
    /\ reads = <<>>

=============================================================================
